---- MODULE Spec2Model ----
(***************************************************************************)
(* Model of scripts/inject_module_names.py: the commit-message hook that   *)
(* injects the names of the changed modules into the subject line.         *)
(*                                                                         *)
(* Strings are sequences of one-character strings, so that splitting,      *)
(* joining, prefix tests and the regular expressions are computed the way  *)
(* the Python code computes them.                                          *)
(***************************************************************************)
EXTENDS Integers, Sequences, FiniteSets, TLC

VARIABLES
    changed_modules,   \* module names in the iteration order of the input
    sep,               \* the separator argument of group_modules
    grouped_modules,   \* the list returned by group_modules
    message_head,      \* the subject line handed to parse_commit_msg
    branch,            \* what `git branch --show-current` prints
    parsed_msg,        \* the outcome of parse_commit_msg
    branch_task_id,    \* the outcome of get_task_id_from_branch
    commit_file,       \* content of the file named by sys.argv[1]
    original_file,     \* its content when the hook started
    message_body,      \* main's local of the same name
    writes,            \* number of times main wrote the file
    status,            \* exit status of the process (-1 while running)
    pc                 \* position of the run

vars == <<changed_modules, sep, grouped_modules, message_head, branch,
          parsed_msg, branch_task_id, commit_file, original_file,
          message_body, writes, status, pc>>

-----------------------------------------------------------------------------
(* Bounds *)

MaxModules == 5

-----------------------------------------------------------------------------
(* Python string primitives *)

Range(s) == {s[i] : i \in 1..Len(s)}

\* s[i:] with a 1-based start
Drop(s, i) == SubSeq(s, i, Len(s))

\* s.startswith(p)
StartsWith(s, p) == Len(p) <= Len(s) /\ SubSeq(s, 1, Len(p)) = p

\* s[i:].startswith(p)
OccursAt(s, p, i) == i + Len(p) - 1 <= Len(s) /\ SubSeq(s, i, i + Len(p) - 1) = p

RECURSIVE JoinStr(_, _)
\* d.join(parts)
JoinStr(parts, d) ==
    IF Len(parts) = 0 THEN <<>>
    ELSE IF Len(parts) = 1 THEN parts[1]
    ELSE parts[1] \o d \o JoinStr(Tail(parts), d)

RECURSIVE SplitFrom(_, _, _, _)
\* s.split(d) for a non-empty d: leftmost non-overlapping occurrences of d
SplitFrom(s, d, i, start) ==
    IF i > Len(s) THEN <<SubSeq(s, start, Len(s))>>
    ELSE IF s[i] = d[1] /\ OccursAt(s, d, i)
         THEN <<SubSeq(s, start, i - 1)>> \o SplitFrom(s, d, i + Len(d), i + Len(d))
         ELSE SplitFrom(s, d, i + 1, start)

Split(s, d) == SplitFrom(s, d, 1, 1)

\* seq[:n]
Take(s, n) == SubSeq(s, 1, IF n < Len(s) THEN n ELSE Len(s))

RECURSIVE Flatten(_)
\* list.extend / list.append applied in order: concatenation of the pieces
Flatten(ss) == IF Len(ss) = 0 THEN <<>> ELSE ss[1] \o Flatten(Tail(ss))

RECURSIVE Dedup(_)
\* the keys of a dict in insertion order, given the keys in arrival order
Dedup(s) ==
    IF Len(s) = 0 THEN <<>>
    ELSE LET front == Dedup(SubSeq(s, 1, Len(s) - 1))
             last  == s[Len(s)]
         IN  IF last \in Range(front) THEN front ELSE Append(front, last)

-----------------------------------------------------------------------------
(* group_modules *)

\* module.split(sep)[0]
FirstToken(module, d) == Split(module, d)[1]

\* sep.join(module.split(sep)[:2])
SubPrefix(module, d) == JoinStr(Take(Split(module, d), 2), d)

\* the prefix computed for each module by the loop of lines 101-103
PrefixOfEach(modules, d) == [i \in 1..Len(modules) |-> FirstToken(modules[i], d)] \o <<>>

\* the sub_prefix computed for each module by the loop of lines 112-114
SubPrefixOfEach(modules, d) == [i \in 1..Len(modules) |-> SubPrefix(modules[i], d)] \o <<>>

\* defaultdict(list) filled by d[key].append(module): the list stored under
\* key, given the key each module was filed under
ListUnder(modules, keyOfEach, key) ==
    LET at == SelectSeq([i \in 1..Len(modules) |-> i], LAMBDA i : keyOfEach[i] = key)
    IN  [k \in 1..Len(at) |-> modules[at[k]]] \o <<>>

\* SubGroupEntries with `len(sub_modules) < 3` for `len(sub_modules) <= 3`
SubGroupEntriesShortEnumeration(sub_prefix, sub_modules, d) ==
    IF Len(sub_modules) = 1 THEN sub_modules
    ELSE IF Len(sub_modules) < 3
         THEN << sub_prefix \o d \o <<"{">> \o JoinStr(sub_modules, <<",">>) \o <<"}">> >>
         ELSE << sub_prefix \o d \o <<"*">> >>

\* what the inner loop (lines 119-125) adds to grouped_modules for one sub-group
SubGroupEntries(sub_prefix, sub_modules, d) ==
    IF Len(sub_modules) = 1 THEN sub_modules
    ELSE IF Len(sub_modules) <= 3
         THEN << sub_prefix \o d \o <<"{">> \o JoinStr(sub_modules, <<",">>) \o <<"}">> >>
         ELSE << sub_prefix \o d \o <<"*">> >>

\* GroupEntries with `len(modules) < 3` for `len(modules) <= 3`
GroupEntriesSplitsThree(prefix, modules, d) ==
    IF Len(modules) = 1 THEN modules
    ELSE IF Len(modules) < 3
         THEN << prefix \o <<"_">> \o <<"{">> \o JoinStr(modules, <<",">>) \o <<"}">> >>
         ELSE LET subOfEach == SubPrefixOfEach(modules, d)
                  sub_groups == Dedup(subOfEach)
              IN  IF Len(sub_groups) > 3
                  THEN << prefix \o d \o <<"*">> >>
                  ELSE Flatten([k \in 1..Len(sub_groups) |->
                           SubGroupEntries(sub_groups[k],
                                           ListUnder(modules, subOfEach, sub_groups[k]), d)])

\* what the outer loop (lines 105-125) adds to grouped_modules for one prefix
GroupEntries(prefix, modules, d) ==
    IF Len(modules) = 1 THEN modules
    ELSE IF Len(modules) <= 3
         THEN << prefix \o <<"_">> \o <<"{">> \o JoinStr(modules, <<",">>) \o <<"}">> >>
         ELSE LET subOfEach == SubPrefixOfEach(modules, d)
                  sub_groups == Dedup(subOfEach)
              IN  IF Len(sub_groups) > 3
                  THEN << prefix \o d \o <<"*">> >>
                  ELSE Flatten([k \in 1..Len(sub_groups) |->
                           SubGroupEntries(sub_groups[k],
                                           ListUnder(modules, subOfEach, sub_groups[k]), d)])

group_modules(modules, d) ==
    LET prefixOfEach == PrefixOfEach(modules, d)
        modules_by_prefix == Dedup(prefixOfEach)
    IN  Flatten([k \in 1..Len(modules_by_prefix) |->
            GroupEntries(modules_by_prefix[k],
                         ListUnder(modules, prefixOfEach, modules_by_prefix[k]), d)])

-----------------------------------------------------------------------------
(* Character classes of the two regular expressions *)

LowerSeq == <<"a","b","c","d","e","f","g","h","i","j","k","l","m",
              "n","o","p","q","r","s","t","u","v","w","x","y","z">>
UpperSeq == <<"A","B","C","D","E","F","G","H","I","J","K","L","M",
              "N","O","P","Q","R","S","T","U","V","W","X","Y","Z">>

LetterChars == Range(LowerSeq) \cup Range(UpperSeq)

\* \d
DigitChars == {"0","1","2","3","4","5","6","7","8","9"}

\* \w
WordChars == LetterChars \cup DigitChars \cup {"_"}

\* \s
SpaceChars == {" ", "\t"}

\* [a-zA-Z0-9,_ -]
ModuleListChars == LetterChars \cup DigitChars \cup {",", "_", " ", "-"}

\* [_-]
BranchSepChars == {"_", "-"}

\* c.upper()
UpperChar(c) ==
    IF \E i \in 1..Len(LowerSeq) : LowerSeq[i] = c
    THEN UpperSeq[CHOOSE i \in 1..Len(LowerSeq) : LowerSeq[i] = c]
    ELSE c

\* s.upper()
Upper(s) == [i \in 1..Len(s) |-> UpperChar(s[i])]

RECURSIVE SpanEnd(_, _, _)
\* a greedy class*: the index after the longest run of class characters from i
SpanEnd(s, i, class) ==
    IF i <= Len(s) /\ s[i] \in class THEN SpanEnd(s, i + 1, class) ELSE i

\* s[i] = c, false beyond the end
CharAt(s, i, c) == i >= 1 /\ i <= Len(s) /\ s[i] = c

-----------------------------------------------------------------------------
(* get_task_id_from_branch *)

\* ([_-](\d+)[_-]) matches at position i
BranchTokenAt(s, i) ==
    /\ i >= 1 /\ i <= Len(s) /\ s[i] \in BranchSepChars
    /\ SpanEnd(s, i + 1, DigitChars) > i + 1
    /\ SpanEnd(s, i + 1, DigitChars) <= Len(s)
    /\ s[SpanEnd(s, i + 1, DigitChars)] \in BranchSepChars

\* re.search(...): group(1) of the leftmost match, "" when there is none
get_task_id_from_branch(s) ==
    IF \E i \in 1..Len(s) : BranchTokenAt(s, i)
    THEN LET i == CHOOSE k \in 1..Len(s) :
                      BranchTokenAt(s, k) /\ \A j \in 1..(k - 1) : ~BranchTokenAt(s, j)
         IN  SubSeq(s, i, SpanEnd(s, i + 1, DigitChars))
    ELSE <<>>

-----------------------------------------------------------------------------
(* parse_commit_msg *)

NoMatch == [matched |-> FALSE]

\* ^\[(?P<type>\w+)\]\s*(?P<task_id>\[\d{minDigits,}\])\]?\s*(?:[a-zA-Z0-9,_ -]*:)?(?P<msg>.*)
\* on a single line; the code's pattern has minDigits = 1
MatchTemplate(s, minDigits) ==
    LET typeEnd == SpanEnd(s, 2, WordChars)
        tagAt   == SpanEnd(s, typeEnd + 1, SpaceChars)
        digEnd  == SpanEnd(s, tagAt + 1, DigitChars)
        afterBr == IF CharAt(s, digEnd + 1, "]") THEN digEnd + 2 ELSE digEnd + 1
        listAt  == SpanEnd(s, afterBr, SpaceChars)
        listEnd == SpanEnd(s, listAt, ModuleListChars)
        msgAt   == IF CharAt(s, listEnd, ":") THEN listEnd + 1 ELSE listAt
    IN  IF /\ CharAt(s, 1, "[")
           /\ typeEnd > 2
           /\ CharAt(s, typeEnd, "]")
           /\ CharAt(s, tagAt, "[")
           /\ digEnd - (tagAt + 1) >= minDigits
           /\ CharAt(s, digEnd, "]")
        THEN [matched |-> TRUE,
              type    |-> SubSeq(s, 2, typeEnd - 1),
              task_id |-> SubSeq(s, tagAt, digEnd),
              msg     |-> Drop(s, msgAt)]
        ELSE NoMatch

\* re.search(r"^\[(?P<type>\w+)\]\s*(?P<task_id>\[\d+\])...", commit_msg)
ReSearchCommit(s) == MatchTemplate(s, 1)

\* return None
ResultNone == [kind |-> "none"]

\* an uncaught exception
Fault(error, line) == [kind |-> "fault", error |-> error, line |-> line]

\* res is a plain dict after line 63: the attribute access res.task_id of
\* line 65 and the call res.groupdict() of line 73 raise AttributeError
parse_commit_msg(commit_msg, branch_name) ==
    LET res == ReSearchCommit(commit_msg)
    IN  IF ~res.matched THEN ResultNone
        ELSE IF res.task_id # <<>> THEN Fault("AttributeError", 65)
        ELSE IF get_task_id_from_branch(branch_name) = <<>> THEN ResultNone
        ELSE Fault("AttributeError", 73)

-----------------------------------------------------------------------------
(* main *)

\* str.splitlines() on text whose only line terminator is "\n"
SplitLines(text) ==
    LET parts == Split(text, <<"\n">>)
    IN  IF parts[Len(parts)] = <<>> THEN SubSeq(parts, 1, Len(parts) - 1) ELSE parts

\* message_body[:1] != ["\n"]: a str never equals a list, so this is always true
BodyLacksNewline(body) == TRUE

\* lines 133-135
MessageBody(lines) ==
    LET body == JoinStr(Tail(lines), <<"\n">>)
    IN  IF BodyLacksNewline(body) THEN <<"\n">> \o body ELSE body

\* get_changed_modules is declared without parameters (line 9); a call that
\* passes arguments raises TypeError
CallGetChangedModules(args, modules) ==
    IF Len(args) # 0 THEN Fault("TypeError", 141)
    ELSE [kind |-> "ok", value |-> modules]

\* lines 145-155
NewMessage(parsed, modules, body) ==
    LET display == IF Len(modules) <= 3
                   THEN JoinStr(modules, <<",", " ">>)
                   ELSE JoinStr(group_modules(modules, <<"_">>), <<",", " ">>)
        new_head == <<"[">> \o parsed.type \o <<"]">> \o <<"[">> \o parsed.task_id
                    \o <<"]", " ">> \o display \o <<":", " ">> \o parsed.msg
    IN  new_head \o <<"\n">> \o body

\* exit(code): the file is as it was
Exited(code, file) == [pc |-> "exit", status |-> code, file |-> file, writes |-> 0]

\* an uncaught exception ends the interpreter with status 1
Crashed(file) == [pc |-> "fault", status |-> 1, file |-> file, writes |-> 0]

\* the exit status of the `len(changed_modules) == 0` branch (line 144)
NoModulesStatus == 0

\* ParseFailureStatus with exit(0) for exit(1)
ParseFailureStatusSuccess == NoModulesStatus

\* the exit status of the `if not parsed_msg` branch (line 140)
ParseFailureStatus == 1

\* lines 137-157: the outcome of the run once the message has been read
main_rewrite(head, body, branch_name, modules, file) ==
    LET parsed == parse_commit_msg(head, branch_name)
    IN  IF parsed.kind = "fault" THEN Crashed(file)
        ELSE IF parsed.kind = "none" THEN Exited(ParseFailureStatus, file)
        ELSE LET changed == CallGetChangedModules(<<head>>, modules)
             IN  IF changed.kind = "fault" THEN Crashed(file)
                 ELSE IF Len(changed.value) = 0 THEN Exited(NoModulesStatus, file)
                 ELSE [pc |-> "done", status |-> 0,
                       file |-> NewMessage(parsed, changed.value, body),
                       writes |-> 1]

-----------------------------------------------------------------------------
(* Inputs *)

custom == <<"c","u","s","t","o","m">>
module == <<"m","o","d","u","l","e">>
stock  == <<"s","t","o","c","k">>

\* the token lists of the module names; a name is its tokens joined by the
\* separator in use
ModuleTokens ==
    { <<custom, module, <<"a">>>>, <<custom, module, <<"b">>>>,
      <<custom, module, <<"c">>>>, <<custom, module, <<"d">>>>,
      <<custom>>,
      <<custom, <<"a">>>>, <<custom, <<"b">>>>,
      <<stock, <<"a">>>> }

Separators == { <<"_">>, <<"-">> }

ModuleNames(d) == { JoinStr(t, d) : t \in ModuleTokens }

\* the lists of at most MaxModules distinct names: a set of names in one of
\* its iteration orders
ModuleLists(names) ==
    UNION { { l \in [1..n -> names] : \A i, j \in 1..n : i # j => l[i] # l[j] }
            : n \in 0..MaxModules }

\* the modules a commit of the hook's repository touches
StagedNames ==
    { JoinStr(t, <<"_">>) : t \in { <<custom, module, <<"a">>>>, <<custom, module, <<"b">>>>,
                                    <<custom, <<"a">>>>, <<stock, <<"a">>>> } }

TypeTags == { <<"[","f","i","x","]">>, <<"[","F","I","X","]">>, <<"f","i","x">> }
Gaps     == { <<>>, <<" ">> }
TaskTags == { <<"[","1","2","]">>, <<"[","]">>, <<>>, <<"[","1","2","]","]">> }
Prefixes == { <<>>, <<"f","o","o",":">>, <<"a",","," ","b",":">> }
Texts    == { <<"b","a","r">>, <<" ","b",":","r">> }

Subjects ==
    { ty \o g1 \o ta \o g2 \o pr \o tx :
        ty \in TypeTags, g1 \in Gaps, ta \in TaskTags, g2 \in Gaps,
        pr \in Prefixes, tx \in Texts }

Bodies == { <<>>, <<"\n">>, <<"\n","\n","w","h","y","\n">> }

Files == { <<>> } \cup { su \o bo : su \in Subjects, bo \in Bodies }

Branches ==
    { <<"m","a","i","n">>,
      <<"f","e","a","t","u","r","e","-","1","2","3","4","-","x">>,
      <<"f","i","x","_","1","2","_","a","-","3","4","-","b">>,
      <<"f","e","a","t","u","r","e","-","1","2">> }

HookBranches ==
    { <<"m","a","i","n">>,
      <<"f","e","a","t","u","r","e","-","1","2","3","4","-","x">> }

Idle == [kind |-> "idle"]

-----------------------------------------------------------------------------
(* group_modules applied to every list of names *)

InitGroup ==
    /\ sep \in Separators
    /\ changed_modules \in ModuleLists(ModuleNames(sep))
    /\ grouped_modules = <<>>
    /\ message_head = <<>>
    /\ branch = <<>>
    /\ parsed_msg = Idle
    /\ branch_task_id = <<>>
    /\ commit_file = <<>>
    /\ original_file = <<>>
    /\ message_body = <<>>
    /\ writes = 0
    /\ status = -1
    /\ pc = "call"

CallGroupModules ==
    /\ pc = "call"
    /\ grouped_modules' = group_modules(changed_modules, sep)
    /\ pc' = "returned"
    /\ UNCHANGED <<changed_modules, sep, message_head, branch, parsed_msg,
                   branch_task_id, commit_file, original_file, message_body,
                   writes, status>>

NextGroup == CallGroupModules

SpecGroup == InitGroup /\ [][NextGroup]_vars

-----------------------------------------------------------------------------
(* parse_commit_msg and get_task_id_from_branch applied to every subject *)

InitParse ==
    /\ sep = <<"_">>
    /\ changed_modules = <<>>
    /\ grouped_modules = <<>>
    /\ message_head \in Subjects
    /\ branch \in Branches
    /\ parsed_msg = Idle
    /\ branch_task_id = <<>>
    /\ commit_file = <<>>
    /\ original_file = <<>>
    /\ message_body = <<>>
    /\ writes = 0
    /\ status = -1
    /\ pc = "call"

CallGetTaskIdFromBranch ==
    /\ pc = "call"
    /\ branch_task_id' = get_task_id_from_branch(branch)
    /\ pc' = "branch_read"
    /\ UNCHANGED <<changed_modules, sep, grouped_modules, message_head, branch,
                   parsed_msg, commit_file, original_file, message_body,
                   writes, status>>

CallParseCommitMsg ==
    /\ pc \in {"call", "branch_read"}
    /\ parsed_msg' = parse_commit_msg(message_head, branch)
    /\ pc' = "returned"
    /\ UNCHANGED <<changed_modules, sep, grouped_modules, message_head, branch,
                   branch_task_id, commit_file, original_file, message_body,
                   writes, status>>

NextParse == CallGetTaskIdFromBranch \/ CallParseCommitMsg

SpecParse == InitParse /\ [][NextParse]_vars

-----------------------------------------------------------------------------
(* One run of the hook *)

InitMain ==
    /\ sep = <<"_">>
    /\ changed_modules \in ModuleLists(StagedNames)
    /\ grouped_modules = <<>>
    /\ message_head = <<>>
    /\ branch \in HookBranches
    /\ parsed_msg = Idle
    /\ branch_task_id = <<>>
    /\ commit_file \in Files
    /\ original_file = commit_file
    /\ message_body = <<>>
    /\ writes = 0
    /\ status = -1
    /\ pc = "start"

\* lines 131-135; commit_msg_list[0] raises IndexError on an empty file
MainRead ==
    /\ pc = "start"
    /\ LET commit_msg_list == SplitLines(commit_file)
       IN  IF Len(commit_msg_list) = 0
           THEN /\ pc' = "fault"
                /\ status' = 1
                /\ UNCHANGED <<message_head, message_body>>
           ELSE /\ pc' = "read"
                /\ message_head' = commit_msg_list[1]
                /\ message_body' = MessageBody(commit_msg_list)
                /\ UNCHANGED status
    /\ UNCHANGED <<changed_modules, sep, grouped_modules, branch, parsed_msg,
                   branch_task_id, commit_file, original_file, writes>>

\* lines 137-157
MainRewrite ==
    /\ pc = "read"
    /\ LET out == main_rewrite(message_head, message_body, branch,
                               changed_modules, commit_file)
       IN  /\ pc' = out.pc
           /\ status' = out.status
           /\ commit_file' = out.file
           /\ writes' = writes + out.writes
    /\ parsed_msg' = parse_commit_msg(message_head, branch)
    /\ UNCHANGED <<changed_modules, sep, grouped_modules, message_head, branch,
                   branch_task_id, original_file, message_body>>

NextMain == MainRead \/ MainRewrite

SpecMain == InitMain /\ [][NextMain]_vars

-----------------------------------------------------------------------------
(* Vocabulary of the properties *)

Returned == pc = "returned"

Terminated == pc \in {"exit", "fault", "done"}

Names == Range(changed_modules)

\* the first token and the two-token prefix of each input name, by position
Tokenized ==
    [first |-> PrefixOfEach(changed_modules, sep),
     sub   |-> SubPrefixOfEach(changed_modules, sep)]

\* the first tokens of the input names
TopPrefixes(v) == Range(v.first)

\* the positions of the members of a top-level prefix group
TopGroup(v, p) == { i \in 1..Len(v.first) : v.first[i] = p }

\* the members of a top-level prefix group in encounter order
TopGroupList(v, p) == ListUnder(changed_modules, v.first, p)

\* the two-token prefixes found in a top-level group, and one sub-group
SubPrefixes(v, p) == { v.sub[i] : i \in TopGroup(v, p) }
SubGroupSet(v, p, sp) == { i \in TopGroup(v, p) : v.sub[i] = sp }

\* a top-level group that the algorithm splits into sub-groups
IsSplit(v, p) ==
    Cardinality(TopGroup(v, p)) > 3 /\ Cardinality(SubPrefixes(v, p)) <= 3

\* a top-level group that the algorithm collapses into one wildcard
IsCollapsed(v, p) ==
    Cardinality(TopGroup(v, p)) > 3 /\ Cardinality(SubPrefixes(v, p)) > 3

IsWildcard(e) == Len(e) >= 1 /\ e[Len(e)] = "*"

\* the names listed between the braces of an enumeration entry
EnumItems(e) ==
    IF Len(e) >= 2 /\ e[Len(e)] = "}" /\ "{" \in Range(e)
    THEN LET open == CHOOSE i \in 1..Len(e) :
                         e[i] = "{" /\ \A j \in 1..(i - 1) : e[j] # "{"
         IN  Range(Split(SubSeq(e, open + 1, Len(e) - 1), <<",">>))
    ELSE {}

Covers(e, name) ==
    \/ e = name
    \/ name \in EnumItems(e)
    \/ IsWildcard(e) /\ StartsWith(name, SubSeq(e, 1, Len(e) - 1))

Brace(head, items, comma) == head \o <<"{">> \o JoinStr(items, comma) \o <<"}">>

\* the subject line of the file the hook was started on
HasSubject == Len(SplitLines(original_file)) > 0
Subject == SplitLines(original_file)[1]

\* `[TYPE][digits] optional_module_prefix: message`, the digits possibly none
FitsTemplate(s) == MatchTemplate(s, 0).matched

\* the same with a non-empty task id, the two tags adjacent and no stray bracket
FitsTemplateWithId(s) ==
    LET m == MatchTemplate(s, 1)
    IN  /\ m.matched
        /\ StartsWith(s, <<"[">> \o m.type \o <<"]">> \o m.task_id)
        /\ ~CharAt(s, Len(m.type) + Len(m.task_id) + 3, "]")

\* the same with an empty task tag
FitsTemplateWithoutId(s) ==
    LET m == MatchTemplate(s, 0)
    IN  /\ m.matched
        /\ m.task_id = <<"[", "]">>
        /\ StartsWith(s, <<"[">> \o m.type \o <<"]">> \o m.task_id)
        /\ ~CharAt(s, Len(m.type) + 5, "]")

\* the digits between the brackets of a task tag
TagDigits(tag) == SelectSeq(tag, LAMBDA c : c \in DigitChars)

\* the branch name holds a token [_-](digits)[_-]
BranchHasToken(b) == \E i \in 1..Len(b) : BranchTokenAt(b, i)

\* the digits of the first such token
BranchDigits(b) ==
    LET i == CHOOSE k \in 1..Len(b) :
                 BranchTokenAt(b, k) /\ \A j \in 1..(k - 1) : ~BranchTokenAt(b, j)
    IN  SubSeq(b, i + 1, SpanEnd(b, i + 1, DigitChars) - 1)

-----------------------------------------------------------------------------
(* Properties of group_modules *)

\* C1: with separator "_", every input name is covered by exactly one entry
\* of the output: the entry equals it, enumerates it between braces, or is a
\* wildcard whose text before the "*" is a prefix of it.
C1_EveryNameCoveredOnce ==
    (Returned /\ sep = <<"_">>) =>
        \A m \in Names :
            Cardinality({ k \in 1..Len(grouped_modules) :
                            Covers(grouped_modules[k], m) }) = 1

\* C7: for every separator, a top-level group of 2 or 3 members is emitted as
\* prefix + sep + "{" + the full names, comma-joined + "}".
C7_SmallGroupUsesSeparator ==
    Returned =>
        LET v == Tokenized
        IN  \A p \in TopPrefixes(v) :
                Cardinality(TopGroup(v, p)) \in {2, 3} =>
                    Brace(p \o sep, TopGroupList(v, p), <<",">>) \in Range(grouped_modules)

\* C8: as the doc-comment says, a group of 2 or 3 members is emitted as
\* prefix_{rest1, rest2, ...}, each rest being the name without the shared
\* prefix and separator.
C8_SmallGroupListsRests ==
    (Returned /\ sep = <<"_">>) =>
        LET v == Tokenized
        IN  \A p \in TopPrefixes(v) :
                Cardinality(TopGroup(v, p)) \in {2, 3} =>
                    LET members == TopGroupList(v, p)
                        rests == [i \in 1..Len(members) |->
                                     Drop(members[i], Len(p) + Len(sep) + 1)]
                    IN  \/ Brace(p \o sep, rests, <<",", " ">>) \in Range(grouped_modules)
                        \/ Brace(p \o sep, rests, <<",">>) \in Range(grouped_modules)

\* the wildcard entries the algorithm is to emit
ExpectedWildcards(v) ==
    { p \o sep \o <<"*">> : p \in { q \in TopPrefixes(v) : IsCollapsed(v, q) } }
    \cup UNION { { sp \o sep \o <<"*">> :
                     sp \in { t \in SubPrefixes(v, p) :
                                Cardinality(SubGroupSet(v, p, t)) > 3 } }
                 : p \in { q \in TopPrefixes(v) : IsSplit(v, q) } }

C10_OneEntryPerTopGroup ==
    Returned => Len(grouped_modules) = Cardinality(TopPrefixes(Tokenized))

\* what the entries stand for: a top-level group, or one of its sub-groups
\* when it has more than 3 members and at most 3 sub-prefixes
EntryKeys(v) ==
    UNION { { <<p, t>> : t \in IF IsSplit(v, p) THEN SubPrefixes(v, p) ELSE {p} }
            : p \in TopPrefixes(v) }

\* C10 amended: the output has one entry per top-level group that has at most
\* 3 members or more than 3 sub-prefixes, and one entry per sub-group of every
\* other top-level group; an empty input yields an empty output.
C10_EntriesPerGroup ==
    Returned =>
        LET v == Tokenized
        IN  Len(grouped_modules) = Cardinality(EntryKeys(v))

\* a top-level group of more than 3 members contributes one entry per sub-group
C10_Witness ==
    /\ Returned
    /\ \E p \in TopPrefixes(Tokenized) :
           IsSplit(Tokenized, p) /\ Cardinality(SubPrefixes(Tokenized, p)) > 1
    /\ Len(grouped_modules) > Cardinality(TopPrefixes(Tokenized))

-----------------------------------------------------------------------------
(* Properties of parse_commit_msg *)

\* C3: a subject `[TYPE][digits] optional_module_prefix: message` is parsed
\* into TYPE uppercased, the digits of the tag and the text after the prefix.
C3_ParsesTemplate ==
    (Returned /\ FitsTemplateWithId(message_head)) =>
        /\ parsed_msg.kind = "ok"
        /\ parsed_msg.type = Upper(MatchTemplate(message_head, 1).type)
        /\ parsed_msg.task_id = TagDigits(MatchTemplate(message_head, 1).task_id)
        /\ parsed_msg.msg = MatchTemplate(message_head, 1).msg

\* C4: with an empty task tag and a branch name holding a token
\* [_-](digits)[_-], parsing succeeds and the task id is the digits of the
\* first such token, without the separators around them.
C4_TaskIdFromBranch ==
    (Returned /\ FitsTemplateWithoutId(message_head) /\ BranchHasToken(branch)) =>
        /\ parsed_msg.kind = "ok"
        /\ parsed_msg.task_id = BranchDigits(branch)

-----------------------------------------------------------------------------
(* Properties of main *)

\* what C2 expects in the file
ExpectedFile ==
    LET lines   == SplitLines(original_file)
        m       == MatchTemplate(lines[1], 1)
        display == IF Len(changed_modules) <= 3
                   THEN JoinStr(changed_modules, <<",", " ">>)
                   ELSE JoinStr(group_modules(changed_modules, <<"_">>), <<",", " ">>)
    IN  <<"[">> \o Upper(m.type) \o <<"]">> \o <<"[">> \o TagDigits(m.task_id)
        \o <<"]", " ">> \o display \o <<":", " ">> \o m.msg
        \o <<"\n">> \o JoinStr(Tail(lines), <<"\n">>)

\* C2: when the subject fits the template with a task id and at least one
\* module changed, the run ends normally having written the file once, with
\* the rebuilt subject, a newline and the body lines.
C2_RewritesMessage ==
    (Terminated /\ HasSubject /\ Len(changed_modules) >= 1) =>
        (FitsTemplateWithId(Subject) =>
            /\ pc = "done"
            /\ status = 0
            /\ writes = 1
            /\ commit_file = ExpectedFile)

\* no subject that fits the template, and no task id in the branch name
Unparsable ==
    /\ ~BranchHasToken(branch)
    /\ LET lines == SplitLines(original_file)
       IN  Len(lines) > 0 => ~FitsTemplate(lines[1])

\* C5: when the subject does not fit the template and the branch name yields
\* no task id, the file is never written and the run ends with status 1.
C5_UnparsableExitsOne ==
    Unparsable =>
        /\ writes = 0
        /\ commit_file = original_file
        /\ Terminated => status = 1

C5_Witness ==
    /\ Unparsable
    /\ HasSubject
    /\ pc = "exit"
    /\ status = 1
    /\ commit_file = original_file

\* C6: when no changed module is detected, the run ends with status 0 and the
\* file as it was.
C6_NoModulesExitsZero ==
    (Terminated /\ HasSubject /\ Len(changed_modules) = 0) =>
        (FitsTemplateWithId(Subject) =>
            /\ status = 0
            /\ commit_file = original_file)

====
